---- MODULE Spec2Model ----
(***************************************************************************)
(* Room availability checker for building A29: the command-line program    *)
(* (room_checker.py) and the web front end (celcat_flask_app.py).          *)
(*                                                                         *)
(* Instants are whole minutes.  An ISO-8601 timestamp of the calendar API  *)
(* is a record [day, minute]; datetime.fromisoformat turns it into the     *)
(* instant day * MinutesPerDay + minute, and datetime.date() is the        *)
(* integer quotient by MinutesPerDay.  float('inf') and the finite floats  *)
(* are records [k, v] (k = 1 for +inf, -1 for -inf, 0 for the number v).   *)
(***************************************************************************)
EXTENDS Integers, Sequences, FiniteSets, TLC

(* ------------------------------ bounds --------------------------------- *)
\* Last minute of a day (a day has MaxMinute + 1 minutes).
MaxMinute == 3
\* Longest event list drawn for the evaluator functions.
MaxEvents == 2
\* Number of configured rooms (len(A29_ROOMS) in the programs).
NRooms == 4
\* Number of rooms of a room list configured in an arbitrary order.
ShuffledRooms == 3
\* The minute of today at which the query of a run is made.
QueryMinute == 1

MinutesPerDay == MaxMinute + 1

(* --------------------------- time and numbers -------------------------- *)
\* The timestamps the calendar can send: every minute of today and the
\* first minute of tomorrow (the programs ask for today..tomorrow).
Stamps == {[day |-> 0, minute |-> m] : m \in 0..MaxMinute}
            \cup {[day |-> 1, minute |-> 0]}

fromisoformat(s) == s.day * MinutesPerDay + s.minute

date(t) == t \div MinutesPerDay

\* strftime('%H:%M'): the time of day, the date is dropped.
strftime_HM(t) == t % MinutesPerDay

Instants == {fromisoformat(s) : s \in Stamps}

Fin(n) == [k |-> 0, v |-> n]
inf == [k |-> 1, v |-> 0]
Neg(x) == [k |-> 0 - x.k, v |-> 0 - x.v]
NumLess(x, y) == x.k < y.k \/ (x.k = y.k /\ x.v < y.v)

\* Python's None.
None == [none |-> TRUE]

Events == {e \in [start : Stamps, end : Stamps] :
             fromisoformat(e.start) <= fromisoformat(e.end)}

RECURSIVE SeqsUpTo(_, _)
SeqsUpTo(S, n) ==
    IF n = 0 THEN {<<>>}
    ELSE LET shorter == SeqsUpTo(S, n - 1)
         IN  shorter \cup {Append(s, x) : s \in {q \in shorter : Len(q) = n - 1}, x \in S}

(* ------------------- room_checker.py: the evaluator -------------------- *)
\* Mutant: the end boundary taken exclusive.
RECURSIVE is_room_available_now_end_exclusive(_, _)
is_room_available_now_end_exclusive(events, current_time) ==
    IF events = <<>> THEN TRUE
    ELSE LET start == fromisoformat(Head(events).start)
             end == fromisoformat(Head(events).end)
         IN  IF start <= current_time /\ current_time < end THEN FALSE
             ELSE is_room_available_now_end_exclusive(Tail(events), current_time)

RECURSIVE is_room_available_now(_, _)
is_room_available_now(events, current_time) ==
    IF events = <<>> THEN TRUE
    ELSE LET start == fromisoformat(Head(events).start)
             end == fromisoformat(Head(events).end)
         IN  IF start <= current_time /\ current_time <= end THEN FALSE
             ELSE is_room_available_now(Tail(events), current_time)

\* min(seq, key = start): the first element with the least start.
RECURSIVE MinByStart(_)
MinByStart(seq) ==
    IF Len(seq) = 1 THEN seq[1]
    ELSE LET rest == MinByStart(Tail(seq))
         IN  IF fromisoformat(rest.start) < fromisoformat(Head(seq).start)
             THEN rest ELSE Head(seq)

\* Mutant: the same-day filter left out.
get_next_event_any_day(events, current_time) ==
    IF events = <<>> THEN None
    ELSE LET future_events ==
                 SelectSeq(events, LAMBDA e : fromisoformat(e.start) > current_time)
         IN  IF future_events = <<>> THEN None ELSE MinByStart(future_events)

get_next_event(events, current_time) ==
    IF events = <<>> THEN None
    ELSE LET current_date == date(current_time)
             future_events ==
                 SelectSeq(events,
                     LAMBDA e : fromisoformat(e.start) > current_time
                                /\ date(fromisoformat(e.start)) = current_date)
         IN  IF future_events = <<>> THEN None ELSE MinByStart(future_events)

\* Mutant: the operands of the subtraction exchanged.
get_available_duration_swapped(events, current_time) ==
    LET next_event == get_next_event(events, current_time)
    IN  IF next_event # None
        THEN Fin(current_time - fromisoformat(next_event.start))
        ELSE inf

get_available_duration(events, current_time) ==
    LET next_event == get_next_event(events, current_time)
    IN  IF next_event # None
        THEN Fin(fromisoformat(next_event.start) - current_time)
        ELSE inf

\* The first loop of get_next_availability: the end of the first event
\* that contains current_time, or None.
RECURSIVE current_event_end(_, _)
current_event_end(events, current_time) ==
    IF events = <<>> THEN None
    ELSE LET start == fromisoformat(Head(events).start)
             end == fromisoformat(Head(events).end)
         IN  IF start <= current_time /\ current_time <= end THEN [end |-> end]
             ELSE current_event_end(Tail(events), current_time)

\* Mutant: only events that start strictly after the end are taken.
RECURSIVE next_event_after_strict(_, _, _, _)
next_event_after_strict(events, cur_end, current_date, acc) ==
    IF events = <<>> THEN acc
    ELSE LET start == fromisoformat(Head(events).start)
             take == start > cur_end /\ date(start) = current_date
                     /\ (acc = None \/ start < fromisoformat(acc.start))
         IN  next_event_after_strict(Tail(events), cur_end, current_date,
                                     IF take THEN Head(events) ELSE acc)

\* The second loop of get_next_availability, from the accumulator acc.
RECURSIVE next_event_after(_, _, _, _)
next_event_after(events, cur_end, current_date, acc) ==
    IF events = <<>> THEN acc
    ELSE LET start == fromisoformat(Head(events).start)
             take == start >= cur_end /\ date(start) = current_date
                     /\ (acc = None \/ start < fromisoformat(acc.start))
         IN  next_event_after(Tail(events), cur_end, current_date,
                              IF take THEN Head(events) ELSE acc)

\* Mutant: the date of the current event's end is not looked at.
get_next_availability_any_end(events, current_time) ==
    LET current_date == date(current_time)
        cur == current_event_end(events, current_time)
    IN  IF cur = None THEN None
        ELSE LET nxt == next_event_after(events, cur.end, current_date, None)
                 duration == IF nxt # None
                             THEN Fin(fromisoformat(nxt.start) - cur.end)
                             ELSE inf
             IN  [avail_time |-> cur.end, duration |-> duration]

get_next_availability(events, current_time) ==
    LET current_date == date(current_time)
        cur == current_event_end(events, current_time)
    IN  IF cur = None \/ date(cur.end) # current_date THEN None
        ELSE LET nxt == next_event_after(events, cur.end, current_date, None)
                 duration == IF nxt # None
                             THEN Fin(fromisoformat(nxt.start) - cur.end)
                             ELSE inf
             IN  [avail_time |-> cur.end, duration |-> duration]

(* ----------------- celcat_flask_app.py: the evaluator ------------------ *)
RECURSIVE is_room_available(_, _)
is_room_available(events, check_time) ==
    IF events = <<>> THEN TRUE
    ELSE LET start == fromisoformat(Head(events).start)
             end == fromisoformat(Head(events).end)
         IN  IF start <= check_time /\ check_time <= end THEN FALSE
             ELSE is_room_available(Tail(events), check_time)

get_next_event_today(events, check_time) ==
    IF events = <<>> THEN None
    ELSE LET check_date == date(check_time)
             future ==
                 SelectSeq(events,
                     LAMBDA e : fromisoformat(e.start) > check_time
                                /\ date(fromisoformat(e.start)) = check_date)
         IN  IF future # <<>> THEN MinByStart(future) ELSE None

web_get_available_duration(events, check_time) ==
    LET next_event == get_next_event_today(events, check_time)
    IN  IF next_event = None THEN inf
        ELSE Fin(fromisoformat(next_event.start) - check_time)

\* The list comprehension of get_next_availability and the min over it:
\* the event the free window is measured to, or None.
web_next_event_after(events, current_end, check_date) ==
    LET future ==
            SelectSeq(events,
                LAMBDA e : fromisoformat(e.start) >= current_end
                           /\ date(fromisoformat(e.start)) = check_date)
    IN  IF future # <<>> THEN MinByStart(future) ELSE None

web_get_next_availability(events, check_time) ==
    IF events = <<>> THEN None
    ELSE LET check_date == date(check_time)
             cur == current_event_end(events, check_time)
         IN  IF cur = None \/ date(cur.end) # check_date THEN None
             ELSE LET next_event == web_next_event_after(events, cur.end, check_date)
                      duration ==
                          IF next_event # None
                          THEN Fin(fromisoformat(next_event.start) - cur.end)
                          ELSE inf
                  IN  [avail_time |-> cur.end, duration |-> duration]

(* ------------------------------- state --------------------------------- *)
VARIABLES
    \* the evaluator functions applied to one drawn input
    ev_events, ev_t, ev_fn, ev_cli, ev_web,
    \* one query: the instant, the configured room list, the answers the
    \* calendar may give and the answer it gave for each room
    now, rooms, calendar, resp,
    \* room_checker.check_all_rooms
    cli_pc, cli_i, available_rooms, occupied_rooms, cli_report,
    \* celcat_flask_app.check_availability
    web_pc, web_i, web_available_rooms, web_occupied_rooms, web_result

evalVars == <<ev_events, ev_t, ev_fn, ev_cli, ev_web>>
envVars == <<now, rooms, calendar, resp>>
cliVars == <<cli_pc, cli_i, available_rooms, occupied_rooms, cli_report>>
webVars == <<web_pc, web_i, web_available_rooms, web_occupied_rooms, web_result>>
vars == <<evalVars, envVars, cliVars, webVars>>

(* -------------- the evaluator functions on drawn inputs ---------------- *)
EventLists == SeqsUpTo(Events, MaxEvents)

NoRun ==
    /\ now = 0 /\ rooms = <<>> /\ calendar = {} /\ resp = <<>>
    /\ cli_pc = "off" /\ cli_i = 0 /\ available_rooms = <<>>
    /\ occupied_rooms = <<>> /\ cli_report = None
    /\ web_pc = "off" /\ web_i = 0 /\ web_available_rooms = <<>>
    /\ web_occupied_rooms = <<>> /\ web_result = None

InitEval ==
    /\ ev_events \in EventLists
    /\ ev_t \in Instants
    /\ ev_fn = "none" /\ ev_cli = None /\ ev_web = None
    /\ NoRun

CallIsAvailable ==
    /\ ev_fn = "none"
    /\ ev_fn' = "is_available"
    /\ ev_cli' = [value |-> is_room_available_now(ev_events, ev_t)]
    /\ ev_web' = [value |-> is_room_available(ev_events, ev_t)]
    /\ UNCHANGED <<ev_events, ev_t, envVars, cliVars, webVars>>

CallAvailableDuration ==
    /\ ev_fn = "none"
    /\ ev_fn' = "available_duration"
    /\ ev_cli' = [value |-> get_available_duration(ev_events, ev_t)]
    /\ ev_web' = [value |-> web_get_available_duration(ev_events, ev_t)]
    /\ UNCHANGED <<ev_events, ev_t, envVars, cliVars, webVars>>

CallNextAvailability ==
    /\ ev_fn = "none"
    /\ ev_fn' = "next_availability"
    /\ ev_cli' = [value |-> get_next_availability(ev_events, ev_t)]
    /\ ev_web' = [value |-> web_get_next_availability(ev_events, ev_t)]
    /\ UNCHANGED <<ev_events, ev_t, envVars, cliVars, webVars>>

NextEval == CallIsAvailable \/ CallAvailableDuration \/ CallNextAvailability

SpecEval == InitEval /\ [][NextEval]_vars

(* ------------------- the calendar service's answers -------------------- *)
\* Room identifiers are 1..NRooms; their order is the lexicographic order
\* of the room names.
\* A29_ROOMS as the programs list it: in ascending order of the names.
A29_ROOMS == [i \in 1..NRooms |-> i]

\* A room list configured in any order.
RoomLists(n) == {p \in [1..n -> 1..n] : \A r \in 1..n : \E i \in 1..n : p[i] = r}

isoformat(t) == [day |-> t \div MinutesPerDay, minute |-> t % MinutesPerDay]
Event(s, e) == [start |-> isoformat(s), end |-> isoformat(e)]

\* What one POST to the calendar can come to: requests raises a
\* RequestException (transport error, timeout, or raise_for_status on a
\* non-success status), or the body is JSON.  A malformed body is a list
\* whose event carries no ISO-8601 timestamps.
Ok(json) == [kind |-> "ok", json |-> json]
Failure(kind) == [kind |-> kind]
NotAsked == [kind |-> "not asked"]
BadStamp == [garbled |-> TRUE]
MalformedPayload == <<[start |-> BadStamp, end |-> BadStamp]>>

\* Answers to a query at t that rank differently: a failed request, a
\* malformed body, no event, a free room with an event in 1 or in 2
\* minutes, an occupied room that is free from t (for the rest of the day,
\* or for 1 minute) or from t + 1.
RankedAnswers(t) ==
    { Failure("request_exception"),
      Ok(MalformedPayload),
      Ok(<<>>),
      Ok(<<Event(t + 1, t + 1)>>),
      Ok(<<Event(t + 2, t + 2)>>),
      Ok(<<Event(t - 1, t)>>),
      Ok(<<Event(t - 1, t), Event(t + 1, t + 1)>>),
      Ok(<<Event(t - 1, t + 1)>>) }

\* The same and a room occupied until tomorrow.
Answers(t) == RankedAnswers(t) \cup { Ok(<<Event(t - 1, MinutesPerDay)>>) }

\* Mutant: a failed request yields an empty event list instead of None.
get_room_schedule_empty_on_failure(answer) ==
    IF answer.kind = "request_exception" THEN [json |-> <<>>]
    ELSE [json |-> answer.json]

\* requests.post / raise_for_status raise a RequestException, which
\* get_room_schedule turns into None; otherwise it returns response.json().
get_room_schedule(answer) ==
    IF answer.kind = "request_exception" THEN None
    ELSE [json |-> answer.json]

\* celcat_flask_app.py: the same request under a bare "except:", so that
\* whatever is raised yields None.
web_get_room_schedule(answer) ==
    IF answer.kind # "ok" THEN None
    ELSE [json |-> answer.json]

\* datetime.fromisoformat(event['start']) raises ValueError on the first
\* event of the list when its start is no ISO-8601 timestamp.
Raises(events) == events # <<>> /\ Head(events).start \notin Stamps

(* ------------------------------ sorting -------------------------------- *)
\* Python compares key tuples lexicographically.
RECURSIVE TupleLess(_, _)
TupleLess(a, b) ==
    IF a = <<>> THEN b # <<>>
    ELSE IF b = <<>> THEN FALSE
    ELSE IF Head(a) = Head(b) THEN TupleLess(Tail(a), Tail(b))
    ELSE NumLess(Head(a), Head(b))

\* x goes before the first element whose key is greater than its own.
RECURSIVE Insert(_, _)
Insert(sorted, x) ==
    IF sorted = <<>> THEN <<x>>
    ELSE IF TupleLess(x.key, Head(sorted).key) THEN <<x>> \o sorted
    ELSE <<Head(sorted)>> \o Insert(Tail(sorted), x)

RECURSIVE StableSort(_)
StableSort(d) ==
    IF d = <<>> THEN <<>>
    ELSE Insert(StableSort(SubSeq(d, 1, Len(d) - 1)), d[Len(d)])

\* list.sort(key = ...), with keys[i] the key of seq[i]: stable.
list_sort(seq, keys) ==
    LET sorted == StableSort([i \in 1..Len(seq) |-> [key |-> keys[i], item |-> seq[i]]])
    IN  [i \in 1..Len(seq) |-> sorted[i].item]

\* Mutant: the slice takes three entries.
Take3(seq) == SubSeq(seq, 1, IF Len(seq) < 3 THEN Len(seq) ELSE 3)

Take2(seq) == SubSeq(seq, 1, IF Len(seq) < 2 THEN Len(seq) ELSE 2)

\* Mutant: the duration is not negated (shortest first).
cli_available_key_ascending(x) == <<x.duration, Fin(x.room)>>
\* Mutant: the room name is left out of the key.
cli_available_key_no_name(x) == <<Neg(x.duration)>>
\* key = lambda x: (-x[2], x[0])
cli_available_key(x) == <<Neg(x.duration), Fin(x.room)>>
\* Mutant: the window is not negated (shortest window first).
cli_occupied_key_ascending(x) == <<Fin(x.avail_time), x.duration, Fin(x.room)>>
\* key = lambda x: (x[2], -x[3], x[0])
cli_occupied_key(x) == <<Fin(x.avail_time), Neg(x.duration), Fin(x.room)>>
\* key = lambda x: (-x['duration'], x['room'])
web_available_key(x) == <<Neg(x.duration), Fin(x.room)>>
\* key = lambda x: (x['avail_time'], -x['duration'], x['room'])
\* Mutant: the longest window first, before the soonest.
web_occupied_key_longest_first(x) == <<Neg(x.duration), Fin(x.avail_time), Fin(x.room)>>

web_occupied_key(x) == <<Fin(x.avail_time), Neg(x.duration), Fin(x.room)>>

(* --------------------------- report entries ---------------------------- *)
RestOfDay == [rest_of_day |-> TRUE]
Until(t) == [until |-> strftime_HM(t)]
FromUntil(avail_time, duration) ==
    [from |-> strftime_HM(avail_time),
     until |-> IF duration = inf THEN RestOfDay
               ELSE Until(avail_time + duration.v)]

(* ------------------------------ one query ------------------------------ *)
\* The two programs are run side by side on the same query instant and the
\* same answers of the calendar, in turns: check_all_rooms asks for a room
\* first, check_availability then gets the same answer; after the last
\* room the first reports, then the second responds.  They share nothing
\* else, so the turns leave out no state either program can reach.
NoEval ==
    /\ ev_events = <<>> /\ ev_t = 0 /\ ev_fn = "off"
    /\ ev_cli = None /\ ev_web = None

Query(room_list, answers) ==
    /\ NoEval
    /\ now = QueryMinute
    /\ rooms = room_list
    /\ calendar = answers
    /\ resp = [r \in {room_list[i] : i \in 1..Len(room_list)} |-> NotAsked]
    /\ cli_pc = "loop" /\ cli_i = 1
    /\ available_rooms = <<>> /\ occupied_rooms = <<>> /\ cli_report = None
    /\ web_pc = "loop" /\ web_i = 1
    /\ web_available_rooms = <<>> /\ web_occupied_rooms = <<>> /\ web_result = None

Init == Query(A29_ROOMS, Answers(QueryMinute))

InitAnyOrder ==
    \E room_list \in RoomLists(ShuffledRooms) :
        Query(room_list, RankedAnswers(QueryMinute))

\* Whose move it is.
CliTurn ==
    \/ cli_pc = "loop" /\ web_pc = "loop" /\ cli_i = web_i
    \/ cli_pc = "report" /\ web_pc = "respond"
WebTurn ==
    \/ web_pc = "loop" /\ resp[rooms[web_i]] # NotAsked
    \/ web_pc = "respond" /\ cli_pc = "done"

AfterLoop(i, pc) == IF i = Len(rooms) THEN pc ELSE "loop"

\* room_checker.py, one iteration of "for room in A29_ROOMS".
CliRoom ==
    /\ cli_pc = "loop"
    /\ CliTurn
    /\ \E answer \in calendar :
        LET room == rooms[cli_i]
            sched == get_room_schedule(answer)
        IN  /\ resp' = [resp EXCEPT ![room] = answer]
            /\ IF sched = None
               THEN /\ cli_pc' = AfterLoop(cli_i, "report")
                    /\ cli_i' = cli_i + 1
                    /\ UNCHANGED <<available_rooms, occupied_rooms>>
               ELSE IF Raises(sched.json)
               THEN /\ cli_pc' = "crashed"
                    /\ UNCHANGED <<cli_i, available_rooms, occupied_rooms>>
               ELSE IF is_room_available_now(sched.json, now)
               THEN /\ available_rooms' = Append(available_rooms,
                            [room |-> room, events |-> sched.json,
                             duration |-> get_available_duration(sched.json, now)])
                    /\ cli_pc' = AfterLoop(cli_i, "report")
                    /\ cli_i' = cli_i + 1
                    /\ UNCHANGED occupied_rooms
               ELSE LET next_avail == get_next_availability(sched.json, now)
                    IN  /\ occupied_rooms' =
                               IF next_avail # None
                               THEN Append(occupied_rooms,
                                        [room |-> room, events |-> sched.json,
                                         avail_time |-> next_avail.avail_time,
                                         duration |-> next_avail.duration])
                               ELSE occupied_rooms
                        /\ cli_pc' = AfterLoop(cli_i, "report")
                        /\ cli_i' = cli_i + 1
                        /\ UNCHANGED available_rooms
    /\ UNCHANGED <<cli_report, now, rooms, calendar, evalVars, webVars>>

cli_available_line(x) ==
    LET next_event == get_next_event(x.events, now)
    IN  [name |-> x.room,
         info |-> IF next_event # None THEN Until(fromisoformat(next_event.start))
                  ELSE RestOfDay]

cli_next_line(x) == [name |-> x.room, info |-> FromUntil(x.avail_time, x.duration)]

\* room_checker.py, from the sort of available_rooms to the summary line.
CliReport ==
    /\ cli_pc = "report"
    /\ CliTurn
    /\ LET sorted_available ==
               list_sort(available_rooms,
                         [i \in 1..Len(available_rooms) |->
                              cli_available_key(available_rooms[i])])
           show_next == Len(sorted_available) <= 2 /\ occupied_rooms # <<>>
           sorted_occupied ==
               IF show_next
               THEN list_sort(occupied_rooms,
                              [i \in 1..Len(occupied_rooms) |->
                                   cli_occupied_key(occupied_rooms[i])])
               ELSE occupied_rooms
           shown == IF show_next THEN Take2(sorted_occupied) ELSE <<>>
       IN  /\ available_rooms' = sorted_available
           /\ occupied_rooms' = sorted_occupied
           /\ cli_report' =
                [available |-> [i \in 1..Len(sorted_available) |->
                                    cli_available_line(sorted_available[i])],
                 next_available |-> [i \in 1..Len(shown) |-> cli_next_line(shown[i])],
                 summary |-> [available |-> Len(sorted_available),
                              occupied |-> Len(sorted_occupied)]]
    /\ cli_pc' = "done"
    /\ UNCHANGED <<cli_i, envVars, evalVars, webVars>>

\* celcat_flask_app.py, one iteration of "for room in A29_ROOMS".
WebRoom ==
    /\ web_pc = "loop"
    /\ WebTurn
    /\ LET room == rooms[web_i]
           sched == web_get_room_schedule(resp[room])
       IN  IF sched = None
           THEN /\ web_pc' = AfterLoop(web_i, "respond")
                /\ web_i' = web_i + 1
                /\ UNCHANGED <<web_available_rooms, web_occupied_rooms>>
           ELSE IF Raises(sched.json)
           THEN /\ web_pc' = "crashed"
                /\ UNCHANGED <<web_i, web_available_rooms, web_occupied_rooms>>
           ELSE IF is_room_available(sched.json, now)
           THEN /\ web_available_rooms' = Append(web_available_rooms,
                        [room |-> room, events |-> sched.json,
                         duration |-> web_get_available_duration(sched.json, now)])
                /\ web_pc' = AfterLoop(web_i, "respond")
                /\ web_i' = web_i + 1
                /\ UNCHANGED web_occupied_rooms
           ELSE LET next_avail == web_get_next_availability(sched.json, now)
                IN  /\ web_occupied_rooms' =
                           IF next_avail # None
                           THEN Append(web_occupied_rooms,
                                    [room |-> room,
                                     avail_time |-> next_avail.avail_time,
                                     duration |-> next_avail.duration])
                           ELSE web_occupied_rooms
                    /\ web_pc' = AfterLoop(web_i, "respond")
                    /\ web_i' = web_i + 1
                    /\ UNCHANGED web_available_rooms
    /\ UNCHANGED <<web_result, envVars, evalVars, cliVars>>

web_available_item(item) ==
    LET next_event == get_next_event_today(item.events, now)
    IN  [name |-> item.room,
         info |-> IF next_event # None THEN Until(fromisoformat(next_event.start))
                  ELSE RestOfDay]

web_next_item(item) == [name |-> item.room, info |-> FromUntil(item.avail_time, item.duration)]

\* celcat_flask_app.py, from the two sorts to jsonify(result).
WebRespond ==
    /\ web_pc = "respond"
    /\ WebTurn
    /\ LET sorted_available ==
               list_sort(web_available_rooms,
                         [i \in 1..Len(web_available_rooms) |->
                              web_available_key(web_available_rooms[i])])
           sorted_occupied ==
               list_sort(web_occupied_rooms,
                         [i \in 1..Len(web_occupied_rooms) |->
                              web_occupied_key(web_occupied_rooms[i])])
           shown == IF Len(sorted_available) <= 2 THEN Take2(sorted_occupied) ELSE <<>>
       IN  /\ web_available_rooms' = sorted_available
           /\ web_occupied_rooms' = sorted_occupied
           /\ web_result' =
                [available |-> [i \in 1..Len(sorted_available) |->
                                    web_available_item(sorted_available[i])],
                 next_available |-> [i \in 1..Len(shown) |-> web_next_item(shown[i])],
                 summary |-> [available |-> Len(sorted_available),
                              occupied |-> Len(sorted_occupied)]]
    /\ web_pc' = "done"
    /\ UNCHANGED <<web_i, envVars, evalVars, cliVars>>

Next == CliRoom \/ CliReport \/ WebRoom \/ WebRespond

Spec == Init /\ [][Next]_vars

SpecAnyOrder == InitAnyOrder /\ [][Next]_vars

\* The evaluator functions on drawn inputs, and the query in A29_ROOMS order.
InitBoth == InitEval \/ Init

NextBoth == NextEval \/ Next

SpecBoth == InitBoth /\ [][NextBoth]_vars

(* ============================ properties =============================== *)
\* The words of the specification, stated over sets of events.
Start(e) == fromisoformat(e.start)
End(e) == fromisoformat(e.end)
Covers(e, t) == Start(e) <= t /\ t <= End(e)
Occupied(events, t) == \E i \in 1..Len(events) : Covers(events[i], t)
Least(S) == CHOOSE x \in S : \A y \in S : x <= y
\* The starts of the events that begin after t on t's date.
LaterStartsToday(events, t) ==
    {Start(events[i]) : i \in {j \in 1..Len(events) :
        Start(events[j]) > t /\ date(Start(events[j])) = date(t)}}
\* The starts of the events that begin at or after E on t's date.
StartsFrom(events, E, t) ==
    {Start(events[i]) : i \in {j \in 1..Len(events) :
        Start(events[j]) >= E /\ date(Start(events[j])) = date(t)}}
\* The containing event: the first, in list order, that covers t.
Containing(events, t) ==
    events[Least({i \in 1..Len(events) : Covers(events[i], t)})]

\* C1: a room is reported available at t exactly when no event of its list
\* has start <= t <= end, both boundaries inclusive (both programs).
C1_AvailableIffNoEventCovers ==
    ev_fn = "is_available" =>
        /\ ev_cli.value = ~Occupied(ev_events, ev_t)
        /\ ev_web.value = ~Occupied(ev_events, ev_t)

\* One event ends exactly at t, the next starts exactly at t: occupied.
C1_Witness ==
    /\ ev_fn = "is_available"
    /\ Len(ev_events) = 2
    /\ Start(ev_events[1]) < ev_t /\ End(ev_events[1]) = ev_t
    /\ Start(ev_events[2]) = ev_t /\ End(ev_events[2]) > ev_t
    /\ ev_cli.value = FALSE /\ ev_web.value = FALSE

\* C2: the free duration is the minutes from t to the least start among the
\* events that start after t on t's date, and infinite when there is none.
C2_FreeDurationToNextStartToday ==
    ev_fn = "available_duration" =>
        LET S == LaterStartsToday(ev_events, ev_t)
            expected == IF S = {} THEN inf ELSE Fin(Least(S) - ev_t)
        IN  ev_cli.value = expected /\ ev_web.value = expected

\* Two later events today, the sooner one second in the list.
C2_Witness ==
    /\ ev_fn = "available_duration"
    /\ Len(ev_events) = 2
    /\ ev_t < Start(ev_events[2]) /\ Start(ev_events[2]) < Start(ev_events[1])
    /\ date(Start(ev_events[1])) = date(ev_t)
    /\ ev_cli.value = Fin(Start(ev_events[2]) - ev_t)

\* C3: when the containing event ends on a later date than t, the next
\* availability is None, whatever else the list holds.
C3_NoneWhenOccupancyPassesMidnight ==
    (/\ ev_fn = "next_availability"
     /\ Occupied(ev_events, ev_t)
     /\ date(End(Containing(ev_events, ev_t))) > date(ev_t))
        => ev_cli.value = None /\ ev_web.value = None

\* The containing event runs past midnight and another event follows today.
C3_Witness ==
    /\ ev_fn = "next_availability"
    /\ Len(ev_events) = 2
    /\ Covers(ev_events[1], ev_t)
    /\ date(End(ev_events[1])) > date(ev_t)
    /\ Start(ev_events[2]) > ev_t /\ date(Start(ev_events[2])) = date(ev_t)
    /\ ev_cli.value = None /\ ev_web.value = None

\* C4: when the containing event ends at E on t's date, the next
\* availability is at E and lasts until the least start >= E on that date,
\* infinitely when there is none.
C4_NextSlotFromEndOfContainingEvent ==
    (/\ ev_fn = "next_availability"
     /\ Occupied(ev_events, ev_t)
     /\ date(End(Containing(ev_events, ev_t))) = date(ev_t))
        => LET E == End(Containing(ev_events, ev_t))
               S == StartsFrom(ev_events, E, ev_t)
               expected == [avail_time |-> E,
                            duration |-> IF S = {} THEN inf ELSE Fin(Least(S) - E)]
           IN  ev_cli.value = expected /\ ev_web.value = expected

\* Occupied now, free at E, and a later event today bounds the window.
C4_Witness ==
    /\ ev_fn = "next_availability"
    /\ Len(ev_events) = 2
    /\ Covers(ev_events[2], ev_t) /\ ~Covers(ev_events[1], ev_t)
    /\ Start(ev_events[2]) < ev_t /\ ev_t < End(ev_events[2])
    /\ Start(ev_events[1]) > End(ev_events[2])
    /\ ev_cli.value = [avail_time |-> End(ev_events[2]),
                       duration |-> Fin(Start(ev_events[1]) - End(ev_events[2]))]
    /\ ev_web.value = ev_cli.value

(* ----------------------- properties of one query ---------------------- *)
\* What the specification says of each configured room, from the answer
\* the calendar gave for it.
ConfiguredRooms == {rooms[i] : i \in 1..Len(rooms)}
FetchFailed(r) == resp[r].kind = "request_exception"
EventsOf(r) == resp[r].json
IsFree(r) == resp[r].kind = "ok" /\ ~Occupied(EventsOf(r), now)
FreeDuration(r) ==
    LET S == LaterStartsToday(EventsOf(r), now)
    IN  IF S = {} THEN inf ELSE Fin(Least(S) - now)
HasNextSlot(r) ==
    /\ resp[r].kind = "ok"
    /\ Occupied(EventsOf(r), now)
    /\ date(End(Containing(EventsOf(r), now))) = date(now)
SlotStart(r) == End(Containing(EventsOf(r), now))
SlotDuration(r) ==
    LET S == StartsFrom(EventsOf(r), SlotStart(r), now)
    IN  IF S = {} THEN inf ELSE Fin(Least(S) - SlotStart(r))
FreeRooms == {r \in ConfiguredRooms : IsFree(r)}
SlotRooms == {r \in ConfiguredRooms : HasNextSlot(r)}

Longer(a, b) == (a = inf /\ b # inf) \/ (a # inf /\ b # inf /\ a.v > b.v)
\* Descending free duration, then ascending identifier.
FreeBefore(p, q) ==
    \/ Longer(FreeDuration(p), FreeDuration(q))
    \/ FreeDuration(p) = FreeDuration(q) /\ p < q
\* Ascending becomes-available-at, descending window, ascending identifier.
SlotBefore(p, q) ==
    \/ SlotStart(p) < SlotStart(q)
    \/ SlotStart(p) = SlotStart(q) /\ Longer(SlotDuration(p), SlotDuration(q))
    \/ SlotStart(p) = SlotStart(q) /\ SlotDuration(p) = SlotDuration(q) /\ p < q

\* The rooms of S in the order before, each at the rank of its predecessors.
Ranked(S, before) ==
    [i \in 1..Cardinality(S) |->
        CHOOSE r \in S : Cardinality({q \in S : before[q, r]}) = i - 1]
FreeRoomsRanked == Ranked(FreeRooms, [p \in FreeRooms, q \in FreeRooms |-> FreeBefore(p, q)])
SlotRoomsRanked == Ranked(SlotRooms, [p \in SlotRooms, q \in SlotRooms |-> SlotBefore(p, q)])

Names(lines) == [i \in 1..Len(lines) |-> lines[i].name]
Min2(n) == IF n < 2 THEN n ELSE 2
\* Both programs have answered the query.  (One of them ends without a
\* report exactly when the other does, and neither changes its lists or
\* its report once it is done.)
BothDone == cli_pc = "done" /\ web_pc = "done"

\* C5: the available rooms are reported by descending free duration,
\* infinite first, and by ascending identifier among equal durations.
C5_AvailableByDurationThenName ==
    BothDone =>
        /\ \A i, j \in 1..Len(cli_report.available) :
               i < j => FreeBefore(cli_report.available[i].name,
                                   cli_report.available[j].name)
        /\ \A i, j \in 1..Len(web_result.available) :
               i < j => FreeBefore(web_result.available[i].name,
                                   web_result.available[j].name)

\* Rooms 1 and 3 free for the same finite time, room 2 for the rest of the
\* day, fetched last first: reported as 2, 1, 3.
C5_Witness ==
    /\ BothDone
    /\ rooms = <<3, 2, 1>>
    /\ FreeRooms = {1, 2, 3}
    /\ FreeDuration(2) = inf
    /\ FreeDuration(1) # inf /\ FreeDuration(1) = FreeDuration(3)
    /\ Names(cli_report.available) = <<2, 1, 3>>
    /\ Names(web_result.available) = <<2, 1, 3>>

\* C6: the next-available section is empty when more than 2 rooms are
\* available; otherwise it is the first min(2, n) entries of the sorted
\* list of the n occupied rooms with a known next slot.
C6_NextSectionGatedAndCapped ==
    LET sorted == SlotRoomsRanked
        expected == IF Cardinality(FreeRooms) <= 2
                    THEN SubSeq(sorted, 1, Min2(Len(sorted)))
                    ELSE <<>>
    IN  BothDone =>
            /\ Names(cli_report.next_available) = expected
            /\ Names(web_result.next_available) = expected

\* Three rooms free and one occupied with a next slot: nothing is shown.
C6_Witness ==
    /\ BothDone
    /\ Cardinality(FreeRooms) = 3 /\ Cardinality(SlotRooms) = 1
    /\ cli_report.next_available = <<>> /\ web_result.next_available = <<>>

SoonestFirst(shown) ==
    /\ \A i, j \in 1..Len(shown) : i < j => SlotBefore(shown[i], shown[j])
    /\ \A i \in 1..Len(shown) :
           \A r \in SlotRooms \ {shown[k] : k \in 1..Len(shown)} :
               SlotBefore(shown[i], r)
InSlotOrder(occupied) ==
    \A i, j \in 1..Len(occupied) :
        i < j => SlotBefore(occupied[i].room, occupied[j].room)

\* C7: the occupied rooms with a known next slot are ordered by ascending
\* becomes-available-at, then descending window, then ascending
\* identifier, and the rooms shown are the first under that order.
C7_OccupiedBySlotThenWindowThenName ==
    BothDone =>
        /\ SoonestFirst(Names(cli_report.next_available))
        /\ Len(available_rooms) <= 2 => InSlotOrder(occupied_rooms)
        /\ SoonestFirst(Names(web_result.next_available))
        /\ InSlotOrder(web_occupied_rooms)

\* Three occupied rooms fetched in the order 1, 2, 3: rooms 3 and 2 free up
\* at the same instant, room 3 for longer; room 1 frees up later.
C7_Witness ==
    /\ BothDone
    /\ rooms = <<1, 2, 3>>
    /\ SlotRooms = {1, 2, 3}
    /\ SlotStart(3) = SlotStart(2) /\ Longer(SlotDuration(3), SlotDuration(2))
    /\ SlotStart(1) > SlotStart(2)
    /\ Names(cli_report.next_available) = <<3, 2>>
    /\ Names(web_result.next_available) = <<3, 2>>

Occurrences(list, r) == Cardinality({i \in 1..Len(list) : list[i].room = r})
Dropped(r) ==
    \/ FetchFailed(r)
    \/ resp[r].kind = "ok" /\ Occupied(EventsOf(r), now) /\ ~HasNextSlot(r)
DroppedRooms == {r \in ConfiguredRooms : Dropped(r)}
HasMalformed ==
    \E r \in ConfiguredRooms : resp[r].kind = "ok" /\ Raises(resp[r].json)

\* C8 (as claimed): a failed fetch of one room - transport error,
\* non-success status or malformed payload - never aborts the run, and the
\* rooms fetched successfully are classified as they would be alone.
C8_FetchFailureNeverAborts ==
    /\ cli_pc # "crashed"
    /\ cli_pc = "done" =>
         \A r \in ConfiguredRooms :
             /\ IsFree(r) <=> Occurrences(available_rooms, r) = 1
             /\ HasNextSlot(r) <=> Occurrences(occupied_rooms, r) = 1

Partitioned(available, occupied, summary) ==
    /\ \A r \in ConfiguredRooms :
         /\ Occurrences(available, r) + Occurrences(occupied, r) <= 1
         /\ Occurrences(available, r) = 1 <=> IsFree(r)
         /\ Occurrences(occupied, r) = 1 <=> HasNextSlot(r)
         /\ Occurrences(available, r) + Occurrences(occupied, r) = 0 <=> Dropped(r)
    /\ summary.available = Len(available)
    /\ summary.occupied = Len(occupied)
    /\ summary.available + summary.occupied
           = Cardinality(ConfiguredRooms) - Cardinality(DroppedRooms)

\* C9: after a run every configured room is in exactly one of the
\* available list, the occupied-with-next-slot list, or dropped (fetch
\* failed, or occupied with no slot today); the summary gives the sizes of
\* the two lists, which sum to the configured rooms less the dropped ones.
C9_RoomsPartitionedAndCounted ==
    BothDone =>
        /\ Partitioned(available_rooms, occupied_rooms, cli_report.summary)
        /\ Partitioned(web_available_rooms, web_occupied_rooms, web_result.summary)

\* One room of each kind: failed fetch, occupied past midnight, free,
\* occupied with a slot today.
C9_Witness ==
    /\ BothDone
    /\ \E a, b, c, d \in ConfiguredRooms :
         /\ FetchFailed(a)
         /\ resp[b].kind = "ok" /\ Occupied(EventsOf(b), now) /\ ~HasNextSlot(b)
         /\ FreeRooms = {c} /\ SlotRooms = {d}
    /\ cli_report.summary = [available |-> 1, occupied |-> 1]
    /\ web_result.summary = [available |-> 1, occupied |-> 1]

\* The report as the specification gives it from the answers alone,
\* whatever the order of the room list.
FreeInfo(r) ==
    LET S == LaterStartsToday(EventsOf(r), now)
    IN  IF S = {} THEN RestOfDay ELSE Until(Least(S))
ReportOfAnswers ==
    LET free == FreeRoomsRanked
        slots == SlotRoomsRanked
        shown == IF Len(free) <= 2 THEN SubSeq(slots, 1, Min2(Len(slots))) ELSE <<>>
    IN  [available |-> [i \in 1..Len(free) |->
                            [name |-> free[i], info |-> FreeInfo(free[i])]],
         next_available |-> [i \in 1..Len(shown) |->
                            [name |-> shown[i],
                             info |-> FromUntil(SlotStart(shown[i]), SlotDuration(shown[i]))]],
         summary |-> [available |-> Len(free), occupied |-> Len(slots)]]

\* C10: the report depends on the query instant and the per-room answers
\* only, not on the order in which the rooms are fetched: a run ends
\* without a report exactly when an answer is malformed, and otherwise its
\* report is the one the answers determine.
C10_ReportIndependentOfFetchOrder ==
    /\ cli_pc = "crashed" => HasMalformed
    /\ web_pc = "crashed" => HasMalformed
    /\ cli_pc = "done" \/ web_pc = "done" => ~HasMalformed
    /\ BothDone => cli_report = ReportOfAnswers /\ web_result = ReportOfAnswers

\* Rooms 3 and 1 are fetched in that order, are free for the same time and
\* are reported as 1, 3; room 2 is occupied with a slot today.
C10_Witness ==
    /\ BothDone
    /\ rooms = <<3, 1, 2>>
    /\ FreeRooms = {1, 3} /\ SlotRooms = {2}
    /\ FreeDuration(1) = FreeDuration(3)
    /\ Names(cli_report.available) = <<1, 3>>
    /\ Names(cli_report.next_available) = <<2>>
    /\ web_result = cli_report

(* ------------------------------ C11 ------------------------------------ *)
NonNegative(d) == d = inf \/ (d.k = 0 /\ d.v >= 0)

\* C11: every duration the evaluator derives from events is non-negative:
\* for any event list and query instant, the free duration returned by
\* get_available_duration, and the duration of the free window returned by
\* get_next_availability when it returns one, are each infinite or a
\* number >= 0, in both programs.
C11_DurationsNonNegative ==
    /\ ev_fn = "available_duration" =>
           NonNegative(ev_cli.value) /\ NonNegative(ev_web.value)
    /\ ev_fn = "next_availability" =>
           /\ ev_cli.value # None => NonNegative(ev_cli.value.duration)
           /\ ev_web.value # None => NonNegative(ev_web.value.duration)

\* The boundary of C11: an occupied room whose containing event ends today
\* at a minute at which another event starts, so that both programs return
\* a free window of length 0, while an event that started before that end
\* is in the list.
C11_Witness ==
    /\ ev_fn = "next_availability"
    /\ ev_cli.value # None /\ ev_web.value # None
    /\ ev_cli.value.duration = Fin(0)
    /\ ev_web.value.duration = Fin(0)
    /\ \E i \in 1..Len(ev_events) :
           fromisoformat(ev_events[i].start) < ev_cli.value.avail_time

(* ------------------------------ C12 ------------------------------------ *)
\* What the two programs hold for one room of a list: the room and the
\* numbers the report is made of.
Free(x) == [room |-> x.room, duration |-> x.duration]
Slot(x) == [room |-> x.room, avail_time |-> x.avail_time, duration |-> x.duration]

\* C12: room_checker.py and celcat_flask_app.py are equivalent.  On the same
\* event list and instant their evaluator functions return the same value
\* and settle on the same event, also among events with the same start; on
\* the same query instant and the same answer of the calendar for each
\* room, one of them fails on a room exactly when the other fails on it,
\* and when both finish they give the same available list in the same
\* order, the same next-available entries (room, available-from time and
\* duration) and the same summary counts.
C12_CliAndWebAgree ==
    /\ ev_fn \in {"is_available", "available_duration", "next_availability"} =>
           ev_cli = ev_web
    /\ ev_fn = "available_duration" =>
           get_next_event(ev_events, ev_t) = get_next_event_today(ev_events, ev_t)
    /\ ev_fn = "next_availability" /\ ev_cli.value # None =>
           next_event_after(ev_events, ev_cli.value.avail_time, date(ev_t), None)
             = web_next_event_after(ev_events, ev_cli.value.avail_time, date(ev_t))
    /\ web_pc = "crashed" => cli_pc = "crashed" /\ web_i = cli_i
    /\ cli_pc = "crashed" =>
           web_i = cli_i /\ web_pc \in {"loop", "crashed"}
    /\ BothDone =>
           /\ cli_report.available = web_result.available
           /\ Len(available_rooms) = Len(web_available_rooms)
           /\ \A i \in 1..Len(available_rooms) :
                  Free(available_rooms[i]) = Free(web_available_rooms[i])
           /\ cli_report.next_available = web_result.next_available
           /\ \A i \in 1..Len(cli_report.next_available) :
                  Slot(occupied_rooms[i]) = Slot(web_occupied_rooms[i])
           /\ cli_report.summary = web_result.summary

\* Both programs have finished a query in which the first two rooms are
\* occupied, the second one free sooner than the first, and the last two
\* are free, the last one for longer: each lists room 4 before room 3 as
\* available and room 2 before room 1 as next available.
C12_Witness ==
    /\ BothDone
    /\ Names(cli_report.available) = <<4, 3>>
    /\ Names(web_result.available) = <<4, 3>>
    /\ Names(cli_report.next_available) = <<2, 1>>
    /\ Names(web_result.next_available) = <<2, 1>>
    /\ cli_report = web_result

====
